---- MODULE Spec2Model ----
(***************************************************************************)
(* Arithmetic coder of src/arithmetic.py (encode, dirichlet, cdf_interval, *)
(* binary_interval, to_rational, around, extend_around, inside,            *)
(* extend_inside).                                                         *)
(*                                                                         *)
(* The interval bounds u, v and the probabilities are Python floats, i.e.  *)
(* IEEE-754 binary64 numbers.  A float is modelled by its exact value      *)
(* (-1)^neg * m * 2^e, with m an arbitrary-precision natural number, and   *)
(* every float operation is the exact operation followed by rounding to    *)
(* 53 significant bits, ties to even.  Natural numbers wider than a        *)
(* machine word are little-endian sequences of limbs in base 2^15.         *)
(*                                                                         *)
(* Symbols are one-character strings; a bit string is a sequence of 0/1.   *)
(***************************************************************************)
EXTENDS Integers, Sequences, FiniteSets, TLC

(***************************************************************************)
(* Python evaluates an expression once and binds its value to a name.      *)
(* With1..With3 do the same: the arguments are evaluated, and F is applied *)
(* to their values.                                                        *)
(***************************************************************************)
With1(a, F(_)) == CHOOSE r \in {F(x) : x \in {a}} : TRUE
With2(a, b, F(_, _)) == CHOOSE r \in {F(x, y) : x \in {a}, y \in {b}} : TRUE
With3(a, b, c, F(_, _, _)) ==
    CHOOSE r \in {F(x, y, z) : x \in {a}, y \in {b}, z \in {c}} : TRUE

(***************************************************************************)
(* Arbitrary-precision naturals (Python int, and float significands).      *)
(***************************************************************************)
Base == 2^15

RECURSIVE NTrim(_)
NTrim(a0) ==
    With1(a0, LAMBDA a :
        IF a = <<>> THEN a
        ELSE IF a[Len(a)] = 0 THEN NTrim(SubSeq(a, 1, Len(a) - 1)) ELSE a)

RECURSIVE NFromInt(_)
NFromInt(n0) ==
    With1(n0, LAMBDA n :
        IF n = 0 THEN <<>> ELSE <<n % Base>> \o NFromInt(n \div Base))

\* a + b + c for a carry c
RECURSIVE NAddC(_, _, _)
NAddC(a0, b0, c0) ==
    With3(a0, b0, c0, LAMBDA a, b, c :
        IF a = <<>> /\ b = <<>> THEN (IF c = 0 THEN <<>> ELSE <<c>>)
        ELSE With1((IF a = <<>> THEN 0 ELSE Head(a))
                   + (IF b = <<>> THEN 0 ELSE Head(b)) + c,
                   LAMBDA x :
                       <<x % Base>> \o NAddC(IF a = <<>> THEN a ELSE Tail(a),
                                             IF b = <<>> THEN b ELSE Tail(b),
                                             x \div Base)))

NAdd(a, b) == NAddC(a, b, 0)

\* a - b - c for a >= b + c and a borrow c, before trimming
RECURSIVE NSubB(_, _, _)
NSubB(a0, b0, c0) ==
    With3(a0, b0, c0, LAMBDA a, b, c :
        IF a = <<>> THEN <<>>
        ELSE With1(Head(a) - (IF b = <<>> THEN 0 ELSE Head(b)) - c,
                   LAMBDA x :
                       <<x % Base>> \o NSubB(Tail(a),
                                             IF b = <<>> THEN b ELSE Tail(b),
                                             IF x < 0 THEN 1 ELSE 0)))

NSub(a, b) == NTrim(NSubB(a, b, 0))

RECURSIVE NCmpAt(_, _, _)
NCmpAt(a0, b0, i0) ==
    With3(a0, b0, i0, LAMBDA a, b, i :
        IF i = 0 THEN 0
        ELSE IF a[i] < b[i] THEN -1
        ELSE IF a[i] > b[i] THEN 1
        ELSE NCmpAt(a, b, i - 1))

\* -1, 0, 1 as a <, =, > b
NCmp(a0, b0) ==
    With2(a0, b0, LAMBDA a, b :
        IF Len(a) < Len(b) THEN -1
        ELSE IF Len(a) > Len(b) THEN 1
        ELSE NCmpAt(a, b, Len(a)))

\* a * k + c for 0 <= k, c < Base
RECURSIVE NMulSmall(_, _, _)
NMulSmall(a0, k0, c0) ==
    With3(a0, k0, c0, LAMBDA a, k, c :
        IF a = <<>> THEN (IF c = 0 THEN <<>> ELSE <<c>>)
        ELSE With1(Head(a) * k + c, LAMBDA x :
                 <<x % Base>> \o NMulSmall(Tail(a), k, x \div Base)))

RECURSIVE NMul(_, _)
NMul(a0, b0) ==
    With2(a0, b0, LAMBDA a, b :
        IF a = <<>> \/ b = <<>> THEN <<>>
        ELSE IF b = <<1>> THEN a
        ELSE With1(NMul(a, Tail(b)), LAMBDA rest :
                 NAdd(NMulSmall(a, Head(b), 0),
                      IF rest = <<>> THEN rest ELSE <<0>> \o rest)))

\* <<quotient (untrimmed), remainder>> of a by k, 0 < k <= Base
RECURSIVE NDivRem(_, _)
NDivRem(a0, k0) ==
    With2(a0, k0, LAMBDA a, k :
        IF a = <<>> THEN <<a, 0>>
        ELSE With1(NDivRem(Tail(a), k), LAMBDA h :
                 With1(h[2] * Base + Head(a), LAMBDA cur :
                     <<(<<cur \div k>>) \o h[1], cur % k>>)))

NDiv(a, k) == NTrim(NDivRem(a, k)[1])

\* a * 2^k
NShl(a0, k0) ==
    With2(a0, k0, LAMBDA a, k :
        IF a = <<>> \/ k = 0 THEN a
        ELSE [i \in 1..(k \div 15) |-> 0] \o NMulSmall(a, 2^(k % 15), 0))

\* floor(a / 2^k)
NShr(a0, k0) ==
    With2(a0, k0, LAMBDA a, k :
        IF k \div 15 >= Len(a) THEN <<>>
        ELSE NDiv(SubSeq(a, (k \div 15) + 1, Len(a)), 2^(k % 15)))

RECURSIVE BitLen(_)
BitLen(x0) ==
    With1(x0, LAMBDA x : IF x = 0 THEN 0 ELSE 1 + BitLen(x \div 2))

\* number of bits of a
NBits(a0) ==
    With1(a0, LAMBDA a :
        IF a = <<>> THEN 0 ELSE 15 * (Len(a) - 1) + BitLen(a[Len(a)]))

RECURSIVE Tz(_)
Tz(x0) == With1(x0, LAMBDA x : IF x % 2 = 1 THEN 0 ELSE 1 + Tz(x \div 2))

\* number of trailing zero bits of a /= 0
RECURSIVE NTz(_)
NTz(a0) ==
    With1(a0, LAMBDA a :
        IF Head(a) = 0 THEN 15 + NTz(Tail(a)) ELSE Tz(Head(a)))

NOdd(a0) == With1(a0, LAMBDA a : a /= <<>> /\ Head(a) % 2 = 1)

(***************************************************************************)
(* Exact dyadic numbers (-1)^neg * m * 2^e, kept with m odd (or zero).     *)
(***************************************************************************)
DZero == [neg |-> FALSE, m |-> <<>>, e |-> 0]

DNorm(neg, m0, e) ==
    With1(m0, LAMBDA n :
        IF n = <<>> THEN DZero
        ELSE IF NOdd(n) THEN [neg |-> neg, m |-> n, e |-> e]
        ELSE With1(NTz(n), LAMBDA t :
                 [neg |-> neg, m |-> NShr(n, t), e |-> e + t]))

\* int -> float conversion of an int below 2^53 (exact)
DInt(n0) ==
    With1(n0, LAMBDA n :
        IF n < 0 THEN DNorm(TRUE, NFromInt(-n), 0)
                 ELSE DNorm(FALSE, NFromInt(n), 0))

DNeg(x0) ==
    With1(x0, LAMBDA x : IF x.m = <<>> THEN x ELSE [x EXCEPT !.neg = ~x.neg])

\* x + y
DAdd(x0, y0) ==
    With2(x0, y0, LAMBDA x, y :
        IF x.m = <<>> THEN y
        ELSE IF y.m = <<>> THEN x
        ELSE With1(IF x.e < y.e THEN x.e ELSE y.e, LAMBDA e :
             With2(NShl(x.m, x.e - e), NShl(y.m, y.e - e), LAMBDA mx, my :
                 IF x.neg = y.neg THEN DNorm(x.neg, NAdd(mx, my), e)
                 ELSE With1(NCmp(mx, my), LAMBDA c :
                          IF c = 0 THEN DZero
                          ELSE IF c = 1 THEN DNorm(x.neg, NSub(mx, my), e)
                          ELSE DNorm(y.neg, NSub(my, mx), e)))))

\* x * y
DMul(x0, y0) ==
    With2(x0, y0, LAMBDA x, y :
        IF x.m = <<>> \/ y.m = <<>> THEN DZero
        ELSE [neg |-> x.neg /= y.neg, m |-> NMul(x.m, y.m), e |-> x.e + y.e])

\* -1, 0, 1 as x <, =, > y
DCmp(x0, y0) ==
    With2(x0, y0, LAMBDA x, y :
        IF x.m = <<>> THEN (IF y.m = <<>> THEN 0 ELSE IF y.neg THEN 1 ELSE -1)
        ELSE IF y.m = <<>> \/ x.neg /= y.neg THEN (IF x.neg THEN -1 ELSE 1)
        ELSE With2(NBits(x.m) + x.e, NBits(y.m) + y.e, LAMBDA tx, ty :
             With1(IF tx < ty THEN -1
                   ELSE IF tx > ty THEN 1
                   ELSE IF x.e < y.e
                        THEN NCmp(x.m, NShl(y.m, y.e - x.e))
                        ELSE NCmp(NShl(x.m, x.e - y.e), y.m),
                   LAMBDA c : IF x.neg THEN -c ELSE c)))

(***************************************************************************)
(* binary64 arithmetic: exact result rounded to 53 bits, ties to even.     *)
(***************************************************************************)
Round53(x0) ==
    With1(x0, LAMBDA x :
        With1(NBits(x.m) - 53, LAMBDA sh :
            IF sh <= 0 THEN x
            ELSE With1(NShr(x.m, sh), LAMBDA q :
                 With1(NCmp(NSub(x.m, NShl(q, sh)), NShl(<<1>>, sh - 1)),
                       LAMBDA c :
                           IF c = 1 \/ (c = 0 /\ NOdd(q))
                           THEN DNorm(x.neg, NAdd(q, <<1>>), x.e + sh)
                           ELSE DNorm(x.neg, q, x.e + sh)))))

FAdd(x, y) == Round53(DAdd(x, y))
FSub(x, y) == Round53(DAdd(x, DNeg(y)))
FMul(x, y) == Round53(DMul(x, y))

\* x / y for y /= 0 whose odd part fits one limb (an int divisor below 2^15,
\* or the literal 2): the quotient to 57 bits or more with a sticky bit,
\* then rounded
FDiv(x0, y0) ==
    With2(x0, y0, LAMBDA x, y :
        IF x.m = <<>> THEN DZero
        ELSE With1(56 + BitLen(y.m[1]), LAMBDA sh :
             With1(NDivRem(NShl(x.m, sh), y.m[1]), LAMBDA qr :
                 Round53(DNorm(x.neg /= y.neg,
                               NMulSmall(NTrim(qr[1]), 2,
                                         IF qr[2] = 0 THEN 0 ELSE 1),
                               x.e - y.e - sh - 1)))))

FLe(x, y) == DCmp(x, y) <= 0
FLt(x, y) == DCmp(x, y) < 0
FGt(x, y) == DCmp(x, y) > 0

(***************************************************************************)
(* Models: dirichlet(m) and the closure p(xs) it returns.                  *)
(***************************************************************************)
\* the characters used as symbols, in code-point order (Python's sorted())
Letters == <<"a", "b", "c", "d">>
Ascii == Letters \o <<"z">>

sorted(S0) == With1(S0, LAMBDA S : SelectSeq(Ascii, LAMBDA s : s \in S))

\* counts = m.copy(); for x in xs: counts[x] += 1
RECURSIVE counts(_, _)
counts(m0, ys0) ==
    With2(m0, ys0, LAMBDA c, ys :
        IF ys = <<>> THEN c
        ELSE counts([c EXCEPT ![Head(ys)] = @ + 1], Tail(ys)))

\* variant: counts that accept any key (a defaultdict), so nothing is raised
KeyError_Never(m0, ys) == FALSE

\* counts[x] += 1 raises KeyError for a symbol that is not a key of m
KeyError(m0, ys) == \E i \in 1..Len(ys) : ys[i] \notin DOMAIN m0

\* sum(c.values())
RECURSIVE SumOver(_, _)
SumOver(c0, keys0) ==
    With2(c0, keys0, LAMBDA c, keys :
        IF keys = <<>> THEN 0 ELSE c[Head(keys)] + SumOver(c, Tail(keys)))

\* p(xs) of dirichlet(m0): { a: float(c)/total }
P(m0, ys) ==
    With1(counts(m0, ys), LAMBDA c :
        With1(SumOver(c, sorted(DOMAIN c)), LAMBDA total :
            [a \in DOMAIN c |-> FDiv(DInt(c[a]), DInt(total))]))

(***************************************************************************)
(* Interval methods.                                                       *)
(***************************************************************************)
\* the loop of cdf_interval over the symbols A still to visit
RECURSIVE cdf_loop(_, _, _, _, _)
cdf_loop(A0, q, a, F_lo0, F_hi0) ==
    With3(A0, F_lo0, F_hi0, LAMBDA A, F_lo, F_hi :
        IF A = <<>> THEN <<F_lo, F_hi>>
        ELSE With1(FAdd(F_hi, q[Head(A)]), LAMBDA nhi :
                 IF Head(A) = a THEN <<F_hi, nhi>>
                 ELSE cdf_loop(Tail(A), q, a, F_hi, nhi)))

\* variant: F_lo is never advanced
cdf_from_zero(q, a) ==
    <<DInt(0), cdf_loop(sorted(DOMAIN q), q, a, DInt(0), DInt(0))[2]>>

\* <<F_lo, F_hi>>; a symbol that is not in q runs the loop to its end
cdf_interval(q, a) == cdf_loop(sorted(DOMAIN q), q, a, DInt(0), DInt(0))

RECURSIVE to_n(_, _)
to_n(b0, n0) ==
    With2(b0, n0, LAMBDA b, n :
        IF b = <<>> THEN n ELSE to_n(Tail(b), 2 * n + Head(b)))

\* <<n, d>> with 0.b = n/d
to_rational(b) == <<to_n(b, 0), 2^Len(b)>>

\* <<n, m, d>>
binary_interval(b) ==
    With1(to_rational(b), LAMBDA r : <<r[1], r[1] + 1, r[2]>>)

around(b, x, y) ==
    With1(binary_interval(b), LAMBDA i :
        With1(DInt(i[3]), LAMBDA d :
            FLe(DInt(i[1]), FMul(x, d)) /\ FLe(FMul(y, d), DInt(i[2]))))

\* variant: an if in place of the while, at most one bit is appended
extend_around_OneBit(b, x, y) ==
    IF around(b \o <<0>>, x, y) THEN b \o <<0>>
    ELSE IF around(b \o <<1>>, x, y) THEN b \o <<1>>
    ELSE b

RECURSIVE extend_around(_, _, _)
extend_around(b0, x0, y0) ==
    With3(b0, x0, y0, LAMBDA b, x, y :
        IF around(b \o <<0>>, x, y) THEN extend_around(b \o <<0>>, x, y)
        ELSE IF around(b \o <<1>>, x, y) THEN extend_around(b \o <<1>>, x, y)
        ELSE b)

\* variant: the top end is compared with < in place of <=
inside_StrictTop(b, x, y) ==
    With1(binary_interval(b), LAMBDA i :
        With1(DInt(i[3]), LAMBDA d :
            FLe(FMul(x, d), DInt(i[1])) /\ FLt(DInt(i[2]), FMul(y, d))))

inside(b, x, y) ==
    With1(binary_interval(b), LAMBDA i :
        With1(DInt(i[3]), LAMBDA d :
            FLe(FMul(x, d), DInt(i[1])) /\ FLe(DInt(i[2]), FMul(y, d))))

\* variant: the two gaps are compared the wrong way round
inside_bit_flipped(b, x, y) ==
    With1(binary_interval(b), LAMBDA i :
        With1(DInt(i[3]), LAMBDA d :
            IF FGt(FSub(DInt(i[2]), FMul(y, d)), FSub(FMul(x, d), DInt(i[1])))
            THEN 1 ELSE 0))

\* the bit one iteration of extend_inside's loop appends
inside_bit(b, x, y) ==
    With1(binary_interval(b), LAMBDA i :
        With1(DInt(i[3]), LAMBDA d :
            IF FGt(FSub(FMul(x, d), DInt(i[1])), FSub(DInt(i[2]), FMul(y, d)))
            THEN 1 ELSE 0))

(***************************************************************************)
(* encode(G, stream) with G = dirichlet(m), as a state machine.            *)
(***************************************************************************)
VARIABLES
    m,       \* prior counts given to dirichlet
    stream,  \* the items of the stream given to encode that exist so far
    xs,      \* the message so far
    u, v,    \* the message interval [u, v)
    bs,      \* the binary code
    p,       \* the current distribution over symbols
    lo, hi,  \* the target interval given to extend_inside
    bs0,     \* the code given to extend_inside
    pc,      \* "for", "inside", "done", "error" ("idle": not yet called)
    ret      \* <<>> until the call returns, then <<returned code>>

vars == <<m, stream, xs, u, v, bs, p, lo, hi, bs0, pc, ret>>

\* longest code the model follows
MaxBits == 24
\* longest stream, largest prior count
MaxLen == 2
MaxPrior == 3
\* direct calls of extend_inside: longest starting code, largest denominator
\* of the target's bounds
MaxStart == 2
MaxDen == 6

\* lines 40-42
Start(m0, s0) ==
    /\ m = m0
    /\ stream = s0
    /\ xs = <<>>
    /\ u = DInt(0)
    /\ v = DInt(1)
    /\ bs = <<>>
    /\ p = P(m0, <<>>)
    /\ lo = DZero
    /\ hi = DZero
    /\ bs0 = <<>>
    /\ pc = "for"
    /\ ret = <<>>

\* line 46: an iterable that is not a list (a generator, a file) produces
\* its next item when the for statement asks for one
Yield ==
    /\ pc = "for"
    /\ Len(xs) = Len(stream)
    /\ Len(stream) < MaxLen
    /\ \E x \in DOMAIN m \cup {"z"} : stream' = Append(stream, x)
    /\ UNCHANGED <<m, xs, u, v, bs, p, lo, hi, bs0, pc, ret>>

\* lines 46-58: one iteration of the for loop; p = G(xs) raises KeyError
\* when the symbol is not a key of the prior counts
Symbol ==
    /\ pc = "for"
    /\ Len(xs) < Len(stream)
    /\ LET x  == stream[Len(xs) + 1]
           F  == cdf_interval(p, x)
           nu == FAdd(u, FMul(FSub(v, u), F[1]))
           nv == FAdd(u, FMul(FSub(v, u), F[2]))
       IN  /\ xs' = Append(xs, x)
           /\ u' = nu
           /\ v' = nv
           /\ bs' = extend_around(bs, nu, nv)
           /\ IF KeyError(m, Append(xs, x))
              THEN p' = p /\ pc' = "error"
              ELSE p' = P(m, Append(xs, x)) /\ pc' = "for"
    /\ UNCHANGED <<m, stream, lo, hi, bs0, ret>>

\* variant: the code is fitted into the whole of [u, v)
Finalize_Whole ==
    /\ pc = "for"
    /\ Len(xs) = Len(stream)
    /\ lo' = u
    /\ hi' = v
    /\ bs0' = bs
    /\ pc' = "inside"
    /\ UNCHANGED <<m, stream, xs, u, v, bs, p, ret>>

\* variant: the code is fitted into the bottom half of [u, v)
Finalize_LowerHalf ==
    /\ pc = "for"
    /\ Len(xs) = Len(stream)
    /\ lo' = u
    /\ hi' = FAdd(u, FDiv(FSub(v, u), DInt(2)))
    /\ bs0' = bs
    /\ pc' = "inside"
    /\ UNCHANGED <<m, stream, xs, u, v, bs, p, ret>>

\* line 62: the call extend_inside(bs, u + (v-u)/2, v)
Finalize ==
    /\ pc = "for"
    /\ Len(xs) = Len(stream)
    /\ lo' = FAdd(u, FDiv(FSub(v, u), DInt(2)))
    /\ hi' = v
    /\ bs0' = bs
    /\ pc' = "inside"
    /\ UNCHANGED <<m, stream, xs, u, v, bs, p, ret>>

\* lines 157-164: one iteration of extend_inside's loop
InsideStep ==
    /\ pc = "inside"
    /\ ~inside(bs, lo, hi)
    /\ Len(bs) < MaxBits
    /\ bs' = Append(bs, inside_bit(bs, lo, hi))
    /\ UNCHANGED <<m, stream, xs, u, v, p, lo, hi, bs0, pc, ret>>

\* variant: the loop is left without testing inside
Return_Early ==
    /\ pc = "inside"
    /\ pc' = "done"
    /\ ret' = <<bs>>
    /\ UNCHANGED <<m, stream, xs, u, v, bs, p, lo, hi, bs0>>

\* lines 157, 166, 62-64: the loop ends and the code is returned
Return ==
    /\ pc = "inside"
    /\ inside(bs, lo, hi)
    /\ pc' = "done"
    /\ ret' = <<bs>>
    /\ UNCHANGED <<m, stream, xs, u, v, bs, p, lo, hi, bs0>>

Next == Yield \/ Symbol \/ Finalize \/ InsideStep \/ Return

(***************************************************************************)
(* Inputs and specifications.                                              *)
(***************************************************************************)
Alpha(k) == {Letters[i] : i \in 1..k}

\* prior counts over the alphabets a, ab, abc, abcd
Priors == UNION {[Alpha(k) -> 1..MaxPrior] : k \in 1..Len(Letters)}

\* streams over the alphabet of m0 and the out-of-model symbol z
Streams(m0, n) == UNION {[1..k -> DOMAIN m0 \cup {"z"}] : k \in 0..n}

\* encode(dirichlet(m0), stream) is called; the items of the stream, up to
\* MaxLen of them, come one by one
Init == \E m0 \in Priors : Start(m0, <<>>)

Spec == Init /\ [][Next]_vars

\* the documented example (lines 5-9), every stream that differs from it in
\* one symbol, and the one-symbol model with the streams up to "aaaa"
Uniform3 == [a |-> 1, b |-> 1, c |-> 1]
Golden == <<"a", "a", "b", "b", "a", "a", "c", "c">>
GoldenCode == <<0, 0, 0, 1, 1, 1, 1, 0, 0, 1, 1, 1, 1, 0, 0, 1, 0>>
Single == [a |-> 1]
FourA == <<"a", "a", "a", "a">>

GoldenStreams ==
    {[Golden EXCEPT ![i] = x] : i \in 1..Len(Golden), x \in DOMAIN Uniform3}

InitExamples ==
    \/ \E s0 \in GoldenStreams : Start(Uniform3, s0)
    \/ \E s0 \in Streams(Single, Len(FourA)) : Start(Single, s0)

ExamplesSpec == InitExamples /\ [][Next]_vars

\* value(b)/2^|b| and (value(b)+1)/2^|b|, exactly
Dy(b) == DNorm(FALSE, NFromInt(to_n(b, 0)), -Len(b))
DyTop(b) == DNorm(FALSE, NFromInt(to_n(b, 0) + 1), -Len(b))
Pow2(k) == [neg |-> FALSE, m |-> <<1>>, e |-> k]

\* [Dy(b), DyTop(b)) contains [x, y)
Surrounds(b, x, y) == DCmp(Dy(b), x) <= 0 /\ DCmp(y, DyTop(b)) <= 0
\* [Dy(b), DyTop(b)) is contained in [x, y)
Within(b, x, y) == DCmp(x, Dy(b)) <= 0 /\ DCmp(DyTop(b), y) <= 0
\* [Dy(b), DyTop(b)) and [x, y) have a point in common (x < y)
Intersects(b, x, y) == DCmp(Dy(b), y) < 0 /\ DCmp(x, DyTop(b)) < 0

IsPrefix(a, b) == Len(a) <= Len(b) /\ SubSeq(b, 1, Len(a)) = a

BitStrings(n) == UNION {[1..k -> {0, 1}] : k \in 0..n}

\* the floats a/b
Grid == {FDiv(DInt(a), DInt(b)) : a \in 0..MaxDen, b \in 1..MaxDen}

\* a direct call extend_inside(b, x, y), x < y, whose starting dyadic
\* interval meets the target
StartInside(b, x, y) ==
    /\ m = Single
    /\ stream = <<>>
    /\ xs = <<>>
    /\ u = DInt(0)
    /\ v = DInt(1)
    /\ p = P(Single, <<>>)
    /\ bs = b
    /\ bs0 = b
    /\ lo = x
    /\ hi = y
    /\ ret = <<>>

InitInside ==
    \E b \in BitStrings(MaxStart) : \E x \in Grid : \E y \in Grid :
        /\ FLt(x, y)
        /\ Intersects(b, x, y)
        /\ StartInside(b, x, y)
        /\ pc = "inside"

NextInside == InsideStep \/ Return

InsideSpec == InitInside /\ [][NextInside]_vars

\* the two entry points as steps of a caller, from one initial state
Idle == StartInside(<<>>, DZero, DZero) /\ pc = "idle"

\* prior counts that give every symbol the same count
UniformPriors == {m0 \in Priors : \A a \in DOMAIN m0 : m0[a] = m0["a"]}

\* line 34: encode(dirichlet(m0), s0) is called
CallEncode ==
    /\ pc = "idle"
    /\ \E m0 \in UniformPriors : \E s0 \in Streams(m0, MaxLen) :
           /\ m' = m0
           /\ stream' = s0
           /\ p' = P(m0, <<>>)
    /\ pc' = "for"
    /\ UNCHANGED <<xs, u, v, bs, lo, hi, bs0, ret>>

\* line 153: extend_inside(b, x, y) is called
CallInside ==
    /\ pc = "idle"
    /\ \E b \in BitStrings(MaxStart) : \E x \in Grid : \E y \in Grid :
           /\ FLt(x, y)
           /\ Intersects(b, x, y)
           /\ bs' = b
           /\ bs0' = b
           /\ lo' = x
           /\ hi' = y
    /\ pc' = "inside"
    /\ UNCHANGED <<m, stream, xs, u, v, p, ret>>

NextFair == CallEncode \/ CallInside \/ Next

\* once called, encode and extend_inside run to completion: a step of theirs
\* is taken whenever one is possible
FairSpec == Idle /\ [][NextFair]_vars /\ WF_vars(Next)

(***************************************************************************)
(* Properties.                                                             *)
(***************************************************************************)
\* every symbol of the stream is a key of the prior counts
InModel == \A i \in 1..Len(stream) : stream[i] \in DOMAIN m

\* C1: at the top of encode's loop, before the first symbol and after every
\* extend_around, the dyadic interval of bs surrounds the message interval:
\* value(bs)/2^|bs| <= u and v <= (value(bs)+1)/2^|bs|, for every stream over
\* the alphabet.
C1_CodeSurrounds == (pc = "for" /\ InModel) => Surrounds(bs, u, v)

\* C2: the code encode returns sits inside the target of line 62, whose
\* lower end is u + (v-u)/2 as that line computes it and whose upper end is
\* v; for the empty stream the target is [0.5, 1).
C2_FinalInside ==
    pc = "done" =>
        /\ ret = <<bs>>
        /\ lo = FAdd(u, FDiv(FSub(v, u), DInt(2)))
        /\ hi = v
        /\ Within(bs, lo, hi)
        /\ stream = <<>> => Within(bs, Pow2(-1), DInt(1))

C2_Witness == pc = "done" /\ Len(stream) >= 2 /\ Len(bs) > Len(bs0)

\* C3: encode(dirichlet({a:1, b:1, c:1}), "aabbaacc") returns
\* 00011110011110010.
C3_Golden ==
    (pc = "done" /\ m = Uniform3 /\ stream = Golden) => ret = <<GoldenCode>>

C3_Witness == pc = "done" /\ m = Uniform3 /\ stream = Golden

\* C4 as stated: encode(dirichlet({a:1}), "aaaa") returns the empty code.
C4_Original ==
    (pc = "done" /\ m = Single /\ stream = FourA) => ret = << <<>> >>

\* C4 amended: with prior counts {a:1} and the stream "aaaa" the message
\* interval stays [0, 1), every probability is 1 and the code stays empty
\* during the loop; the finalization appends one bit and encode returns "1".
C4_SingleSymbol ==
    (m = Single /\ stream = FourA) =>
        /\ pc = "for" =>
              /\ bs = <<>>
              /\ u = DInt(0)
              /\ v = DInt(1)
              /\ p = [a \in {"a"} |-> DInt(1)]
        /\ pc = "done" => ret = << <<1>> >>

C4_Witness == pc = "done" /\ m = Single /\ stream = FourA /\ xs = FourA

\* C5: with w = v - u the width of the final message interval, the returned
\* code satisfies w/8 < 2^-|bs| <= w/2.
C5_Length ==
    pc = "done" =>
        LET w == DAdd(v, DNeg(u))
            s == Pow2(-Len(ret[1]))
        IN  /\ DCmp(DMul(w, Pow2(-3)), s) < 0
            /\ DCmp(s, DMul(w, Pow2(-1))) <= 0

C5_Witness == pc = "done" /\ Len(stream) >= 2 /\ Len(ret[1]) >= 4

\* C6: every processed symbol of the model's alphabet narrows the message
\* interval: u_new >= u_old, v_new <= v_old, u_new < v_new, and
\* 0 <= u_new, v_new <= 1.
C6_Narrows ==
    [][(pc = "for" /\ pc' = "for" /\ xs' /= xs) =>
          /\ FLe(u, u')
          /\ FLe(v', v)
          /\ FLt(u', v')
          /\ FLe(DInt(0), u')
          /\ FLe(v', DInt(1))]_vars

\* C7: when the stream holds a symbol that is not a key of the prior counts,
\* encode never returns a code, it does not even reach the finalization, and
\* once that symbol has been read the call has aborted.
C7_Abort ==
    /\ (\E i \in 1..Len(stream) : stream[i] \notin DOMAIN m) =>
           (ret = <<>> /\ pc \in {"for", "error"})
    /\ (\E i \in 1..Len(xs) : xs[i] \notin DOMAIN m) => pc = "error"

C7_Witness == pc = "error" /\ Len(xs) >= 2 /\ bs /= <<>>

\* C8: extend_inside, called on a target [lo, hi) with lo < hi that the
\* dyadic interval of its starting code meets, leaves its loop, and encode
\* ends (with a code, or aborted) on every stream.
C8_Terminates == (pc \in {"for", "inside"}) ~> (pc \in {"done", "error"})

C8_Witness ==
    pc = "done" /\ Len(bs) >= Len(bs0) + 3 /\ ~Surrounds(bs0, lo, hi)

\* C9: extend_inside returns an extension of its starting code that sits
\* inside the target, and no strictly shorter extension of the starting code
\* sits inside the target.
C9_Shortest ==
    pc = "done" =>
        /\ IsPrefix(bs0, bs)
        /\ Within(bs, lo, hi)
        /\ \A x \in BitStrings(Len(bs) - Len(bs0) - 1) :
               ~Within(bs0 \o x, lo, hi)

C9_Witness ==
    pc = "done" /\ Len(bs) >= Len(bs0) + 2 /\ Surrounds(bs0, lo, hi)

\* C10: no step removes a bit of the code, and extend_around, called in
\* encode's loop with u < v and a code that surrounds [u, v), returns an
\* extension that surrounds [u, v) while neither of its one-bit extensions
\* does.
C10_Longest ==
    [][/\ IsPrefix(bs, bs')
       /\ (pc = "for" /\ xs' /= xs /\ FLt(u', v') /\ Surrounds(bs, u', v'))
             => /\ Surrounds(bs', u', v')
                /\ ~Surrounds(bs' \o <<0>>, u', v')
                /\ ~Surrounds(bs' \o <<1>>, u', v')]_vars

C10_Witness ==
    pc = "for" /\ Len(xs) >= 2 /\ Len(bs) >= 4 /\ Surrounds(bs, u, v)

====
